---- MODULE Spec2Model ----
(***************************************************************************)
(* State-machine model of the Chimera message-driven core:                 *)
(*   UserSessionActor  (src/actors/user_session_actor.py)                  *)
(*   GenerationActor   (src/actors/generation_actor.py)                    *)
(* Each actor handles one message at a time to completion; the two actors  *)
(* share no state and talk only through ActorSystem.send_message.          *)
(*                                                                         *)
(* Numbers: a cache-hit rate and the cache-hit threshold are floats in     *)
(* [0,1] in the source; here they are integers in hundredths (0..100).     *)
(* Timestamps, uuids and log lines are not modelled.                       *)
(***************************************************************************)
EXTENDS Integers, Sequences, FiniteSets, TLC

VARIABLES
    PROMPT_CONFIG,      \* config.prompts.PROMPT_CONFIG, fixed for a run
    running,            \* FALSE once ActorSystem.stop() has shut the actors down
    _sessions,          \* UserSessionActor._sessions: user_id -> UserSession
    escaped,            \* per actor: the exception that left its latest handle_message (None if none)
    events,             \* event log, one sequence of events per stream_id
    outbox,             \* messages passed to ActorSystem.send_message, per target actor
    genHandled,         \* number of generate_response messages GenerationActor has handled
    _generation_count,  \* GenerationActor._generation_count
    _json_failures,     \* GenerationActor._json_failures
    _circuit_breaker,   \* GenerationActor._circuit_breaker
    genPc,              \* where GenerationActor is: "idle", or awaiting the "first_call" / "retry_call"
    genTrace,           \* the request GenerationActor handled last, then the ordered effects of its handling
    turnsIn,            \* history: well-formed user_message messages delivered, per user_id
    metricsIn,          \* history: rates of cache_hit_metric messages delivered after the user's first turn
    metricsDropped,     \* history: cache_hit_metric messages delivered before the user's first turn
    EVENT_TIMESTAMP_FORMAT, \* config.settings.EVENT_TIMESTAMP_FORMAT, fixed for a run
    eventIn,            \* the event handed to BaseEvent.to_dict
    eventDict,          \* the mapping handed to BaseEvent.from_dict (empty before to_dict)
    eventOut            \* what from_dict made of eventDict: done, the exception raised, the event

vars == <<PROMPT_CONFIG, running, _sessions, escaped, events, outbox, genHandled,
          _generation_count, _json_failures, _circuit_breaker, genPc, genTrace,
          turnsIn, metricsIn, metricsDropped,
          EVENT_TIMESTAMP_FORMAT, eventIn, eventDict, eventOut>>

codecVars == <<EVENT_TIMESTAMP_FORMAT, eventIn, eventDict, eventOut>>
sessionVars == <<_sessions, escaped>>
generationVars == <<genHandled, _generation_count, _json_failures, _circuit_breaker, genPc, genTrace>>
historyVars == <<turnsIn, metricsIn, metricsDropped>>

----------------------------------------------------------------------------
(* Bounds of the model *)

SysTurns == 2            \* Spec: user_message deliveries, all users together
SysMetrics == 1          \* Spec: cache_hit_metric deliveries, all users together
MaxTurns == 3            \* SpecSession: user_message deliveries, all users together
MaxMetrics == 2          \* SpecSession: cache_hit_metric deliveries, all users together
PolicyCycles == 3        \* SpecPolicy: turns of the user go up to PolicyCycles * interval
PolicyMetrics == 6       \* SpecPolicy: cache_hit_metric deliveries
MaxRequests == 3         \* SpecGen: generate_response deliveries
HistMetrics == 26        \* SpecHist: cache_hit_metric deliveries per user
LiveRequests == 2        \* SpecGenLive: generate_response deliveries
MaxAbsent == 2           \* SpecEvent: fields removed from a serialized event

----------------------------------------------------------------------------
(* Values *)

None == "None"

\* "" is the falsy user id: `not user_id` is true for it
UserIds == {"u1", "u2", ""}
Truthy(user_id) == user_id # None /\ user_id # ""

Strategies == {"always", "periodic", "adaptive", "other"}
Intervals == {1, 3, 5}
Thresholds == {40}
MetricRates == {0, 100}

MESSAGE_TYPES ==
    [USER_MESSAGE |-> "user_message",
     GENERATE_RESPONSE |-> "generate_response",
     BOT_RESPONSE |-> "bot_response",
     ERROR |-> "error",
     CACHE_HIT_METRIC |-> "cache_hit_metric",
     PING |-> "ping"]

ActorIds == {"user_session", "generation", "telegram"}

\* f"user_{user_id}"
UserStream(user_id) ==
    CASE user_id = "u1" -> "user_u1"
      [] user_id = "u2" -> "user_u2"
      [] user_id = ""   -> "user_"

StreamIds == {"metrics"} \cup {UserStream(u) : u \in UserIds}

Get(payload, key, default) == IF key \in DOMAIN payload THEN payload[key] ELSE default

RECURSIVE Sum(_)
Sum(s) == IF s = <<>> THEN 0 ELSE Head(s) + Sum(Tail(s))

\* Python slice s[-n:]
LastN(s, n) == IF Len(s) <= n THEN s ELSE SubSeq(s, Len(s) - n + 1, Len(s))

----------------------------------------------------------------------------
(* Messages and events *)

ActorMessage_create(sender_id, message_type, payload) ==
    [sender_id |-> sender_id, message_type |-> message_type, payload |-> payload]

BaseEvent_create(stream_id, event_type, data) ==
    [stream_id |-> stream_id, event_type |-> event_type, data |-> data,
     version |-> 0, correlation_id |-> None]

\* EventVersionManager.append_event: the event goes to the end of its stream
append_event(E, event) ==
    [E EXCEPT ![event.stream_id] = Append(@, event)]

send_message(O, target, message) ==
    [O EXCEPT ![target] = Append(@, message)]

----------------------------------------------------------------------------
(* BaseEvent.to_dict / BaseEvent.from_dict.  A datetime is a pair of whole
   seconds and microseconds; a formatted timestamp is the sequence of the
   numbers its format prints *)

BaseEvent(event_id, stream_id, event_type, timestamp, data, version, correlation_id) ==
    [event_id |-> event_id, stream_id |-> stream_id, event_type |-> event_type,
     timestamp |-> timestamp, data |-> data, version |-> version,
     correlation_id |-> correlation_id]

\* a format with the %f directive and one that stops at the seconds
TimestampFormats == {"%Y-%m-%dT%H:%M:%S.%f", "%Y-%m-%d %H:%M:%S"}

strftime(timestamp, format) ==
    IF format = "%Y-%m-%dT%H:%M:%S.%f"
    THEN <<timestamp.sec, timestamp.usec>>
    ELSE <<timestamp.sec>>

\* datetime.strptime on a string that strftime made with the same format
strptime(string, format) ==
    IF format = "%Y-%m-%dT%H:%M:%S.%f"
    THEN [sec |-> string[1], usec |-> string[2]]
    ELSE [sec |-> string[1], usec |-> 0]

to_dict(event, format) ==
    [event_id |-> event.event_id,
     stream_id |-> event.stream_id,
     event_type |-> event.event_type,
     timestamp |-> strftime(event.timestamp, format),
     data |-> event.data,
     version |-> event.version,
     correlation_id |-> event.correlation_id]

\* the keys from_dict subscripts, in the order it evaluates them
from_dict_subscripts == <<"timestamp", "event_id", "stream_id", "event_type", "data", "version">>

\* variant of from_dict that reads the version with a default
from_dict_default_version(data, format) ==
    LET absent == {i \in 1..5 : from_dict_subscripts[i] \notin DOMAIN data}
    IN  IF absent # {}
        THEN [done |-> TRUE, raised |-> "KeyError",
              key |-> from_dict_subscripts[CHOOSE i \in absent : \A j \in absent : i <= j],
              event |-> None]
        ELSE [done |-> TRUE, raised |-> None, key |-> None,
              event |-> BaseEvent(data["event_id"], data["stream_id"], data["event_type"],
                                  strptime(data["timestamp"], format), data["data"],
                                  Get(data, "version", 0),
                                  Get(data, "correlation_id", None))]

\* Result: the exception raised (None if none) with the key it names, and the event
from_dict(data, format) ==
    LET absent == {i \in DOMAIN from_dict_subscripts : from_dict_subscripts[i] \notin DOMAIN data}
    IN  IF absent # {}
        THEN [done |-> TRUE, raised |-> "KeyError",
              key |-> from_dict_subscripts[CHOOSE i \in absent : \A j \in absent : i <= j],
              event |-> None]
        ELSE [done |-> TRUE, raised |-> None, key |-> None,
              event |-> BaseEvent(data["event_id"], data["stream_id"], data["event_type"],
                                  strptime(data["timestamp"], format), data["data"],
                                  data["version"],
                                  Get(data, "correlation_id", None))]

----------------------------------------------------------------------------
(* UserSessionActor *)

UserSession(user_id, username) ==
    [user_id |-> user_id, username |-> username,
     message_count |-> 0, cache_metrics |-> <<>>]

\* sum(session.cache_metrics[-5:]) / 5 < cache_hit_threshold, without the division
LowCacheHit(config, session) ==
    Sum(LastN(session.cache_metrics, 5)) < 5 * config.cache_hit_threshold

\* variants of _should_include_prompt with one slip each
_should_include_prompt_mod0(config, session) ==
    LET strategy == config.prompt_strategy
        interval == config.system_prompt_interval
    IN  IF ~config.enable_periodic_prompt THEN TRUE
        ELSE IF strategy = "always" THEN TRUE
        ELSE IF strategy = "periodic" THEN session.message_count % interval = 0
        ELSE IF strategy = "adaptive" THEN
            IF session.message_count % interval = 1 THEN TRUE
            ELSE IF Len(session.cache_metrics) >= 5 /\ LowCacheHit(config, session) THEN TRUE
            ELSE FALSE
        ELSE FALSE

_should_include_prompt_le(config, session) ==
    LET strategy == config.prompt_strategy
        interval == config.system_prompt_interval
    IN  IF ~config.enable_periodic_prompt THEN TRUE
        ELSE IF strategy = "always" THEN TRUE
        ELSE IF strategy = "periodic" THEN session.message_count % interval = 1
        ELSE IF strategy = "adaptive" THEN
            IF session.message_count % interval = 1 THEN TRUE
            ELSE IF Len(session.cache_metrics) >= 5
                    /\ Sum(LastN(session.cache_metrics, 5)) <= 5 * config.cache_hit_threshold THEN TRUE
            ELSE FALSE
        ELSE FALSE

_should_include_prompt_default(config, session) ==
    LET strategy == config.prompt_strategy
        interval == config.system_prompt_interval
    IN  IF ~config.enable_periodic_prompt THEN TRUE
        ELSE IF strategy = "always" THEN TRUE
        ELSE IF strategy = "periodic" THEN session.message_count % interval = 1
        ELSE IF strategy = "adaptive" THEN
            IF session.message_count % interval = 1 THEN TRUE
            ELSE IF Len(session.cache_metrics) >= 5 /\ LowCacheHit(config, session) THEN TRUE
            ELSE FALSE
        ELSE TRUE

_should_include_prompt_noswitch(config, session) ==
    LET strategy == config.prompt_strategy
        interval == config.system_prompt_interval
    IN  IF strategy = "always" THEN TRUE
        ELSE IF strategy = "periodic" THEN session.message_count % interval = 1
        ELSE IF strategy = "adaptive" THEN
            IF session.message_count % interval = 1 THEN TRUE
            ELSE IF Len(session.cache_metrics) >= 5 /\ LowCacheHit(config, session) THEN TRUE
            ELSE FALSE
        ELSE FALSE

_should_include_prompt(config, session) ==
    LET strategy == config.prompt_strategy
        interval == config.system_prompt_interval
    IN  IF ~config.enable_periodic_prompt THEN TRUE
        ELSE IF strategy = "always" THEN TRUE
        ELSE IF strategy = "periodic" THEN session.message_count % interval = 1
        ELSE IF strategy = "adaptive" THEN
            IF session.message_count % interval = 1 THEN TRUE
            ELSE IF Len(session.cache_metrics) >= 5 /\ LowCacheHit(config, session) THEN TRUE
            ELSE FALSE
        ELSE FALSE

\* f"low_cache_hit_rate_{avg_cache_hit:.2f}" is the pair of the prefix and the mean
_get_prompt_reason(config, session) ==
    LET strategy == config.prompt_strategy
    IN  IF strategy = "always" THEN <<"always_strategy">>
        ELSE IF strategy = "periodic" THEN <<"periodic_interval_", config.system_prompt_interval>>
        ELSE IF strategy = "adaptive" THEN
            IF Len(session.cache_metrics) >= 5 /\ LowCacheHit(config, session)
            THEN <<"low_cache_hit_rate_", Sum(LastN(session.cache_metrics, 5)) \div 5>>
            ELSE <<"adaptive_periodic">>
        ELSE <<"unknown">>

\* variant of _get_or_create_session that builds a fresh session on every call
_get_or_create_session_fresh(S, E, user_id, username) ==
    [sessions |-> [u \in DOMAIN S \cup {user_id} |->
                      IF u = user_id THEN UserSession(user_id, username) ELSE S[u]],
     events |-> append_event(E, BaseEvent_create(UserStream(user_id), "SessionCreatedEvent",
                                [user_id |-> user_id, username |-> username]))]

\* returns the session map and the event log after the call
_get_or_create_session(S, E, user_id, username) ==
    IF user_id \notin DOMAIN S
    THEN [sessions |-> S @@ (user_id :> UserSession(user_id, username)),
          events |-> append_event(E, BaseEvent_create(UserStream(user_id), "SessionCreatedEvent",
                                    [user_id |-> user_id, username |-> username]))]
    ELSE [sessions |-> S, events |-> E]

\* the session UserSessionActor._handle_user_message leaves behind for the turn
TurnSession(session) ==
    [session EXCEPT !.message_count = @ + 1]

\* variant of _handle_user_message that logs the decision on every turn
_handle_user_message_logged(message) ==
    LET payload == message.payload IN
    IF ~({"user_id", "text", "chat_id"} \subseteq DOMAIN payload)
    THEN \* payload['...'] raises KeyError, nothing was done before it
         /\ escaped' = [escaped EXCEPT !.user_session = "KeyError"]
         /\ UNCHANGED <<_sessions, events, outbox>>
    ELSE
      LET user_id == payload.user_id
          username == Get(payload, "username", None)
          got == _get_or_create_session(_sessions, events, user_id, username)
          session == TurnSession(got.sessions[user_id])
          include_prompt == _should_include_prompt(PROMPT_CONFIG, session)
          prompt_event == BaseEvent_create(UserStream(user_id), "PromptInclusionEvent",
                              [user_id |-> user_id,
                               message_count |-> session.message_count,
                               strategy |-> PROMPT_CONFIG.prompt_strategy,
                               reason |-> _get_prompt_reason(PROMPT_CONFIG, session)])
          generate_msg == ActorMessage_create("user_session", MESSAGE_TYPES.GENERATE_RESPONSE,
                              [user_id |-> user_id,
                               chat_id |-> payload.chat_id,
                               text |-> payload.text,
                               include_prompt |-> include_prompt,
                               message_count |-> session.message_count,
                               session_data |-> [username |-> session.username]])
      IN  /\ _sessions' = [got.sessions EXCEPT ![user_id] = session]
          /\ events' = append_event(got.events, prompt_event)
          /\ outbox' = send_message(outbox, "generation", generate_msg)
          /\ escaped' = [escaped EXCEPT !.user_session = None]

_handle_user_message(message) ==
    LET payload == message.payload IN
    IF ~({"user_id", "text", "chat_id"} \subseteq DOMAIN payload)
    THEN \* payload['...'] raises KeyError, nothing was done before it
         /\ escaped' = [escaped EXCEPT !.user_session = "KeyError"]
         /\ UNCHANGED <<_sessions, events, outbox>>
    ELSE
      LET user_id == payload.user_id
          username == Get(payload, "username", None)
          got == _get_or_create_session(_sessions, events, user_id, username)
          session == TurnSession(got.sessions[user_id])
          include_prompt == _should_include_prompt(PROMPT_CONFIG, session)
          prompt_event == BaseEvent_create(UserStream(user_id), "PromptInclusionEvent",
                              [user_id |-> user_id,
                               message_count |-> session.message_count,
                               strategy |-> PROMPT_CONFIG.prompt_strategy,
                               reason |-> _get_prompt_reason(PROMPT_CONFIG, session)])
          generate_msg == ActorMessage_create("user_session", MESSAGE_TYPES.GENERATE_RESPONSE,
                              [user_id |-> user_id,
                               chat_id |-> payload.chat_id,
                               text |-> payload.text,
                               include_prompt |-> include_prompt,
                               message_count |-> session.message_count,
                               session_data |-> [username |-> session.username]])
      IN  /\ _sessions' = [got.sessions EXCEPT ![user_id] = session]
          /\ events' = IF include_prompt THEN append_event(got.events, prompt_event)
                                         ELSE got.events
          /\ outbox' = send_message(outbox, "generation", generate_msg)
          /\ escaped' = [escaped EXCEPT !.user_session = None]

\* variant of MetricSession that starts the turn counter again
MetricSession_reset(session, cache_hit_rate) ==
    LET appended == Append(session.cache_metrics, cache_hit_rate)
    IN  [session EXCEPT !.message_count = 0,
                        !.cache_metrics =
            IF Len(appended) > 20 THEN LastN(appended, 20) ELSE appended]

\* the session with the rate appended and the history cut to its last 20 entries
MetricSession(session, cache_hit_rate) ==
    LET appended == Append(session.cache_metrics, cache_hit_rate)
    IN  [session EXCEPT !.cache_metrics =
            IF Len(appended) > 20 THEN LastN(appended, 20) ELSE appended]

\* variant of _update_cache_metrics that opens a session for an unknown user
_update_cache_metrics_open(message) ==
    LET user_id == Get(message.payload, "user_id", None)
        rate == Get(message.payload, "cache_hit_rate", 0)
    IN
    /\ escaped' = [escaped EXCEPT !.user_session = None]
    /\ UNCHANGED <<events, outbox>>
    /\ IF ~Truthy(user_id)
       THEN UNCHANGED _sessions
       ELSE IF user_id \notin DOMAIN _sessions
       THEN _sessions' = _sessions @@ (user_id :> MetricSession(UserSession(user_id, None), rate))
       ELSE _sessions' = [_sessions EXCEPT ![user_id] = MetricSession(@, rate)]

\* variant of _update_cache_metrics that records the rate in every session
_update_cache_metrics_all(message) ==
    LET user_id == Get(message.payload, "user_id", None) IN
    /\ escaped' = [escaped EXCEPT !.user_session = None]
    /\ UNCHANGED <<events, outbox>>
    /\ IF ~Truthy(user_id) \/ user_id \notin DOMAIN _sessions
       THEN UNCHANGED _sessions
       ELSE _sessions' = [u \in DOMAIN _sessions |->
                MetricSession(_sessions[u], Get(message.payload, "cache_hit_rate", 0))]

_update_cache_metrics(message) ==
    LET user_id == Get(message.payload, "user_id", None) IN
    /\ escaped' = [escaped EXCEPT !.user_session = None]
    /\ UNCHANGED <<events, outbox>>
    /\ IF ~Truthy(user_id) \/ user_id \notin DOMAIN _sessions
       THEN UNCHANGED _sessions
       ELSE _sessions' = [_sessions EXCEPT ![user_id] =
                MetricSession(@, Get(message.payload, "cache_hit_rate", 0))]

UserSessionActor_handle_message(message) ==
    IF message.message_type = MESSAGE_TYPES.USER_MESSAGE
        THEN _handle_user_message(message)
    ELSE IF message.message_type = MESSAGE_TYPES.CACHE_HIT_METRIC
        THEN _update_cache_metrics(message)
    ELSE /\ escaped' = [escaped EXCEPT !.user_session = None]
         /\ UNCHANGED <<_sessions, events, outbox>>

----------------------------------------------------------------------------
(* Messages the transport and other senders deliver to the session engine *)

UserMessage(user_id) ==
    ActorMessage_create("telegram", MESSAGE_TYPES.USER_MESSAGE,
        [user_id |-> user_id, text |-> "hi", chat_id |-> "c1"])

\* a user_message whose payload lacks the required field `key`
UserMessageWithout(key) ==
    ActorMessage_create("telegram", MESSAGE_TYPES.USER_MESSAGE,
        [k \in {"user_id", "text", "chat_id"} \ {key} |-> UserMessage("u1").payload[k]])

CacheMetricMessage(user_id, rate) ==
    ActorMessage_create("generation", MESSAGE_TYPES.CACHE_HIT_METRIC,
        [user_id |-> user_id, cache_hit_rate |-> rate])

\* a cache_hit_metric whose payload has no user_id
CacheMetricWithoutUser(rate) ==
    ActorMessage_create("generation", MESSAGE_TYPES.CACHE_HIT_METRIC,
        [cache_hit_rate |-> rate])

----------------------------------------------------------------------------
(* The model backend: what one streamed invocation can produce *)

TextJsonOk == "{\"response\": \"hi\"}"
TextNotJson == "not json"
TextNoField == "{\"x\": 1}"
TextList == "[1]"
TextNullField == "{\"response\": null}"
BackendTexts == {TextJsonOk, TextNotJson, TextNoField, TextList, TextNullField}

\* (prompt_cache_hit_tokens, prompt_cache_miss_tokens) of the usage record;
\* a stream without a usage record leaves both at 0
BackendUsages == {<<0, 0>>, <<0, 70>>, <<30, 70>>}

\* any exception the backend call can raise; the SDK decodes each streamed
\* chunk as JSON, so json.JSONDecodeError is one of them
BackendExceptions == {"APIError", "JSONDecodeError"}

Reply(text, usage) == [kind |-> "reply", text |-> text, usage |-> usage, exc |-> None]
Raise(exc) == [kind |-> "raise", text |-> None, usage |-> <<0, 0>>, exc |-> exc]

BackendOutcomes ==
    {Reply(text, <<30, 70>>) : text \in BackendTexts \ {TextList}}
    \cup {Reply(TextJsonOk, <<0, 0>>), Reply(TextJsonOk, <<0, 70>>), Reply(TextList, <<0, 0>>)}
    \cup {Raise(exc) : exc \in BackendExceptions}

\* json.loads on the texts of the model backend
json_loads(text) ==
    CASE text = TextJsonOk     -> [ok |-> TRUE, is_dict |-> TRUE, keys |-> {"response"}, response |-> "hi"]
      [] text = TextNullField  -> [ok |-> TRUE, is_dict |-> TRUE, keys |-> {"response"}, response |-> None]
      [] text = TextNoField    -> [ok |-> TRUE, is_dict |-> TRUE, keys |-> {"x"}, response |-> None]
      [] text = TextList       -> [ok |-> TRUE, is_dict |-> FALSE, keys |-> {}, response |-> None]
      [] OTHER                 -> [ok |-> FALSE, is_dict |-> FALSE, keys |-> {}, response |-> None]

\* does s[:50] work on the value (a str does, None raises TypeError)
Sliceable(value) == value # None

----------------------------------------------------------------------------
(* Circuit breaker (utils.circuit_breaker.CircuitBreaker, contract of spec section 4.2) *)

failure_threshold == 3

CircuitBreaker(threshold) ==
    [state |-> "closed", failure_count |-> 0, window_elapsed |-> FALSE,
     failure_threshold |-> threshold]

\* an open breaker rejects the call until the recovery window has passed
CircuitBreaker_rejects(cb) == cb.state = "open" /\ ~cb.window_elapsed

CircuitBreaker_on_success(cb) ==
    [cb EXCEPT !.state = "closed", !.failure_count = 0, !.window_elapsed = FALSE]

\* a failed trial call (breaker was open, window passed) reopens the breaker
CircuitBreaker_on_failure(cb) ==
    LET count == cb.failure_count + 1 IN
    IF cb.state = "open" \/ count >= cb.failure_threshold
    THEN [cb EXCEPT !.state = "open", !.failure_count = count, !.window_elapsed = FALSE]
    ELSE [cb EXCEPT !.failure_count = count]

----------------------------------------------------------------------------
(* GenerationActor.  G is the part of the state one handle_message works on:
   [breaker, generation_count, json_failures, events, outbox, trace] *)

PROMPTS == [base |-> [json |-> "PROMPT_JSON", normal |-> "PROMPT_NORMAL"]]

_format_context(config, text, include_prompt, force_normal) ==
    LET use_json == config.use_json_mode /\ ~force_normal
        prompt_key == IF use_json THEN "json" ELSE "normal"
        system == IF include_prompt
                  THEN <<[role |-> "system", content |-> PROMPTS.base[prompt_key]]>>
                  ELSE <<>>
    IN  system \o <<[role |-> "user", content |-> text]>>

GenerationActor_append_event(G, event) ==
    [G EXCEPT !.events = append_event(@, event),
              !.trace = Append(@, [op |-> "event", event_type |-> event.event_type,
                                   stream_id |-> event.stream_id])]

\* variant of _log_cache_metrics that counts only the generations it has a rate for
_log_cache_metrics_metered(G, hit_tokens, miss_tokens) ==
    LET total_tokens == hit_tokens + miss_tokens
    IN  IF total_tokens > 0
        THEN GenerationActor_append_event([G EXCEPT !.generation_count = @ + 1],
                BaseEvent_create("metrics", "CacheHitMetricEvent",
                    [prompt_cache_hit_tokens |-> hit_tokens,
                     prompt_cache_miss_tokens |-> miss_tokens,
                     cache_hit_rate |-> (hit_tokens * 100) \div total_tokens]))
        ELSE G

\* variant of _log_cache_metrics that looks at the hit tokens alone
_log_cache_metrics_hit(G, hit_tokens, miss_tokens) ==
    LET counted == [G EXCEPT !.generation_count = @ + 1]
        total_tokens == hit_tokens + miss_tokens
    IN  IF hit_tokens > 0
        THEN GenerationActor_append_event(counted,
                BaseEvent_create("metrics", "CacheHitMetricEvent",
                    [prompt_cache_hit_tokens |-> hit_tokens,
                     prompt_cache_miss_tokens |-> miss_tokens,
                     cache_hit_rate |-> (hit_tokens * 100) \div total_tokens]))
        ELSE counted

_log_cache_metrics(G, hit_tokens, miss_tokens) ==
    LET counted == [G EXCEPT !.generation_count = @ + 1]
        total_tokens == hit_tokens + miss_tokens
    IN  IF total_tokens > 0
        THEN GenerationActor_append_event(counted,
                BaseEvent_create("metrics", "CacheHitMetricEvent",
                    [prompt_cache_hit_tokens |-> hit_tokens,
                     prompt_cache_miss_tokens |-> miss_tokens,
                     cache_hit_rate |-> (hit_tokens * 100) \div total_tokens]))
        ELSE counted

_log_json_failure(G, user_id, error) ==
    GenerationActor_append_event(G,
        BaseEvent_create(UserStream(user_id), "JSONModeFailureEvent",
            [user_id |-> user_id, error |-> error]))

\* variant of _call_api that does not go through the circuit breaker's gate
_call_api_ungated(G, messages, use_json, outcome) ==
    LET invoked == [G EXCEPT !.trace = Append(@, [op |-> "backend_call",
                          response_format |-> IF use_json THEN "json_object" ELSE None,
                          messages |-> messages])]
    IN  IF outcome.kind = "raise"
        THEN [G |-> [invoked EXCEPT !.breaker = CircuitBreaker_on_failure(@),
                                    !.trace = Append(@, [op |-> "backend_raise", exc |-> outcome.exc])],
              raised |-> outcome.exc, response |-> None]
        ELSE LET streamed == [invoked EXCEPT !.trace =
                                  Append(@, [op |-> "backend_reply", text |-> outcome.text,
                                             usage |-> outcome.usage])]
             IN  [G |-> [_log_cache_metrics(streamed, outcome.usage[1], outcome.usage[2])
                            EXCEPT !.breaker = CircuitBreaker_on_success(@)],
                  raised |-> None, response |-> outcome.text]

\* one call through the circuit breaker; outcome is what the backend does if invoked.
\* Result: the state after the call, the exception raised (None if none), the text.
_call_api(G, messages, use_json, outcome) ==
    IF CircuitBreaker_rejects(G.breaker)
    THEN [G |-> [G EXCEPT !.trace = Append(@, [op |-> "rejected"])],
          raised |-> "CircuitBreakerError", response |-> None]
    ELSE
      LET invoked == [G EXCEPT !.trace = Append(@, [op |-> "backend_call",
                            response_format |-> IF use_json THEN "json_object" ELSE None,
                            messages |-> messages])]
      IN  IF outcome.kind = "raise"
          THEN [G |-> [invoked EXCEPT !.breaker = CircuitBreaker_on_failure(@),
                                      !.trace = Append(@, [op |-> "backend_raise", exc |-> outcome.exc])],
                raised |-> outcome.exc, response |-> None]
          ELSE LET streamed == [invoked EXCEPT !.trace =
                                    Append(@, [op |-> "backend_reply", text |-> outcome.text,
                                               usage |-> outcome.usage])]
               IN  [G |-> [_log_cache_metrics(streamed, outcome.usage[1], outcome.usage[2])
                              EXCEPT !.breaker = CircuitBreaker_on_success(@)],
                    raised |-> None, response |-> outcome.text]

\* Result: the exception raised (None if none) and the extracted text
_extract_from_json(response) ==
    LET data == json_loads(response) IN
    IF ~data.ok THEN [raised |-> "JSONDecodeError", text |-> None]
    ELSE IF data.is_dict /\ "response" \in data.keys
         THEN [raised |-> None, text |-> data.response]
         ELSE [raised |-> "ValueError", text |-> None]

\* the try block of _generate_response once the first call is over: the
\* exception raised in it (None if none) and the text it returns
_generate_response_try(called) ==
    IF called.raised # None THEN [raised |-> called.raised, text |-> None]
    ELSE IF PROMPT_CONFIG.use_json_mode THEN _extract_from_json(called.response)
    ELSE [raised |-> None, text |-> called.response]

\* variant of the fallback call that keeps the structured-output mode
_generate_response_fallback_json(G, text, include_prompt, outcome) ==
    _call_api(G, _format_context(PROMPT_CONFIG, text, include_prompt, FALSE), TRUE, outcome)

\* the fallback call of _generate_response
_generate_response_fallback(G, text, include_prompt, outcome) ==
    _call_api(G, _format_context(PROMPT_CONFIG, text, include_prompt, TRUE), FALSE, outcome)

GenerationActor_send(G, message) ==
    [G EXCEPT !.outbox = send_message(@, "telegram", message),
              !.trace = Append(@, [op |-> "send", message_type |-> message.message_type])]

\* what the except clause of handle_message gets: the exception raised by
\* _generate_response, or the TypeError of response_text[:50] on a non-string
GenerationFailure(raised, text) ==
    IF raised # None THEN raised
    ELSE IF ~Sliceable(text) THEN "TypeError"
    ELSE None

bot_response(message, text) ==
    ActorMessage_create("generation", MESSAGE_TYPES.BOT_RESPONSE,
        [user_id |-> message.payload.user_id, chat_id |-> message.payload.chat_id,
         text |-> text])

error_msg(message, error) ==
    ActorMessage_create("generation", MESSAGE_TYPES.ERROR,
        [user_id |-> message.payload.user_id, chat_id |-> message.payload.chat_id,
         error |-> error, error_type |-> "generation_error"])

----------------------------------------------------------------------------
(* GenerationActor.handle_message as steps: it is suspended while a backend
   call is awaited, everything between two calls happens in one step *)

GenState ==
    [breaker |-> _circuit_breaker, generation_count |-> _generation_count,
     json_failures |-> _json_failures, events |-> events, outbox |-> outbox,
     trace |-> genTrace]

\* the variables of the generation pipeline take the values of G
Store(G, pc) ==
    /\ _circuit_breaker' = G.breaker
    /\ _generation_count' = G.generation_count
    /\ _json_failures' = G.json_failures
    /\ events' = G.events
    /\ outbox' = G.outbox
    /\ genTrace' = G.trace
    /\ genPc' = pc
    /\ UNCHANGED <<codecVars, PROMPT_CONFIG, running, _sessions, escaped, genHandled,
                   turnsIn, metricsIn, metricsDropped>>

\* variant of the end of handle_message that swallows a failure
Respond_silent(G, message, failure, text) ==
    IF failure = None
    THEN Store(GenerationActor_send(G, bot_response(message, text)), "idle")
    ELSE Store(G, "idle")

\* the end of handle_message: a bot_response, or an error message from the except clause
Respond(G, message, failure, text) ==
    IF failure = None
    THEN Store(GenerationActor_send(G, bot_response(message, text)), "idle")
    ELSE Store(GenerationActor_send(G, error_msg(message, failure)), "idle")

\* variant of the except clause that retries whether or not the fallback is enabled
OnJsonDecodeError_retry(failed, message, called) ==
    IF PROMPT_CONFIG.use_json_mode
    THEN Store(failed, "retry_call")
    ELSE IF called.raised # None
    THEN Respond(failed, message, "UnboundLocalError", None)
    ELSE Respond(failed, message, GenerationFailure(None, called.response), called.response)

\* the except json.JSONDecodeError clause, after the failure was counted and logged
OnJsonDecodeError(failed, message, called) ==
    IF PROMPT_CONFIG.json_fallback_enabled /\ PROMPT_CONFIG.use_json_mode
    THEN Store(failed, "retry_call")
    ELSE IF called.raised # None
    THEN \* `response` was never bound
         Respond(failed, message, "UnboundLocalError", None)
    ELSE Respond(failed, message, GenerationFailure(None, called.response), called.response)

AfterFirstCall(message, called, tried) ==
    IF tried.raised = None
    THEN Respond(called.G, message, GenerationFailure(None, tried.text), tried.text)
    ELSE IF tried.raised # "JSONDecodeError"
    THEN Respond(called.G, message, tried.raised, None)
    ELSE OnJsonDecodeError(
            _log_json_failure([called.G EXCEPT !.json_failures = @ + 1],
                              message.payload.user_id, tried.raised),
            message, called)

AfterFirstCallOf(message, called) ==
    AfterFirstCall(message, called, _generate_response_try(called))

AfterRetryCall(message, called) ==
    Respond(called.G, message, GenerationFailure(called.raised, called.response),
            called.response)

\* the generation pipeline takes a message and goes up to the first backend call
GenerationActor_handle_message(message) ==
    /\ running
    /\ genPc = "idle"
    /\ genHandled' = genHandled + 1
    /\ IF message.message_type # MESSAGE_TYPES.GENERATE_RESPONSE
       THEN /\ escaped' = [escaped EXCEPT !.generation = None]
            /\ UNCHANGED <<genPc, genTrace>>
       ELSE IF ~({"user_id", "chat_id", "text"} \subseteq DOMAIN message.payload)
       THEN /\ escaped' = [escaped EXCEPT !.generation = "KeyError"]
            /\ UNCHANGED <<genPc, genTrace>>
       ELSE /\ escaped' = [escaped EXCEPT !.generation = None]
            /\ genPc' = "first_call"
            /\ genTrace' = <<message>>
    /\ UNCHANGED <<codecVars, PROMPT_CONFIG, running, _sessions, events, outbox, _generation_count,
                   _json_failures, _circuit_breaker, turnsIn, metricsIn, metricsDropped>>

\* the first call through the breaker is over; the handling goes on to its end
\* or to the fallback call
FirstCallReturns(outcome) ==
    /\ running
    /\ genPc = "first_call"
    /\ AfterFirstCallOf(genTrace[1],
          _call_api(GenState,
                    _format_context(PROMPT_CONFIG, genTrace[1].payload.text,
                                    Get(genTrace[1].payload, "include_prompt", TRUE), FALSE),
                    PROMPT_CONFIG.use_json_mode, outcome))

\* the fallback call is over; the handling ends
RetryCallReturns(outcome) ==
    /\ running
    /\ genPc = "retry_call"
    /\ AfterRetryCall(genTrace[1],
          _generate_response_fallback(GenState, genTrace[1].payload.text,
                                      Get(genTrace[1].payload, "include_prompt", TRUE), outcome))

----------------------------------------------------------------------------
(* Initial states *)

NoSessions == [u \in {} |-> None]

ActorsConstructed ==
    /\ running = TRUE
    /\ _sessions = NoSessions
    /\ escaped = [user_session |-> None, generation |-> None]
    /\ events = [s \in StreamIds |-> <<>>]
    /\ outbox = [a \in ActorIds |-> <<>>]
    /\ genHandled = 0
    /\ _generation_count = 0
    /\ _json_failures = 0
    /\ _circuit_breaker = CircuitBreaker(failure_threshold)
    /\ genPc = "idle"
    /\ genTrace = <<>>
    /\ turnsIn = [u \in UserIds |-> 0]
    /\ metricsIn = [u \in UserIds |-> <<>>]
    /\ metricsDropped = [u \in UserIds \cup {None} |-> 0]

SessionConfigs ==
    [enable_periodic_prompt : BOOLEAN, prompt_strategy : Strategies,
     system_prompt_interval : Intervals, cache_hit_threshold : Thresholds]

JsonConfigs == [use_json_mode : BOOLEAN, json_fallback_enabled : BOOLEAN]

Config(session_config, json_config) ==
    [enable_periodic_prompt |-> session_config.enable_periodic_prompt,
     prompt_strategy |-> session_config.prompt_strategy,
     system_prompt_interval |-> session_config.system_prompt_interval,
     cache_hit_threshold |-> session_config.cache_hit_threshold,
     use_json_mode |-> json_config.use_json_mode,
     json_fallback_enabled |-> json_config.json_fallback_enabled]

NoDict == [k \in {} |-> None]
NotDone == [done |-> FALSE, raised |-> None, key |-> None, event |-> None]

\* the state after the actors are constructed and initialized
Constructed ==
    /\ EVENT_TIMESTAMP_FORMAT = "%Y-%m-%dT%H:%M:%S.%f"
    /\ eventIn = BaseEvent("e1", "metrics", "CacheHitMetricEvent", [sec |-> 1, usec |-> 0],
                           [k \in {} |-> None], 0, None)
    /\ eventDict = NoDict
    /\ eventOut = NotDone
    /\ ActorsConstructed

----------------------------------------------------------------------------
(* Actions *)

WellFormed(message) == {"user_id", "text", "chat_id"} \subseteq DOMAIN message.payload

\* the session engine handles a user_message
DeliverUserMessage(message) ==
    /\ running
    /\ message.message_type = MESSAGE_TYPES.USER_MESSAGE
    /\ UserSessionActor_handle_message(message)
    /\ turnsIn' = IF WellFormed(message)
                  THEN [turnsIn EXCEPT ![message.payload.user_id] = @ + 1]
                  ELSE turnsIn
    /\ UNCHANGED <<codecVars, PROMPT_CONFIG, running, generationVars, metricsIn, metricsDropped>>

\* the session engine handles a cache_hit_metric
DeliverCacheMetric(message) ==
    LET user_id == Get(message.payload, "user_id", None) IN
    /\ running
    /\ message.message_type = MESSAGE_TYPES.CACHE_HIT_METRIC
    /\ UserSessionActor_handle_message(message)
    /\ IF user_id \in UserIds /\ turnsIn[user_id] > 0
       THEN /\ metricsIn' = [metricsIn EXCEPT ![user_id] = Append(@, message.payload.cache_hit_rate)]
            /\ UNCHANGED metricsDropped
       ELSE /\ metricsDropped' = [metricsDropped EXCEPT ![user_id] = @ + 1]
            /\ UNCHANGED metricsIn
    /\ UNCHANGED <<codecVars, PROMPT_CONFIG, running, generationVars, turnsIn>>

\* the recovery window of the open breaker passes
RecoveryWindowPasses ==
    /\ running
    /\ _circuit_breaker.state = "open"
    /\ ~_circuit_breaker.window_elapsed
    /\ _circuit_breaker' = [_circuit_breaker EXCEPT !.window_elapsed = TRUE]
    /\ UNCHANGED <<codecVars, PROMPT_CONFIG, running, _sessions, escaped, events, outbox, genHandled,
                   _generation_count, _json_failures, genPc, genTrace, historyVars>>

\* ActorSystem.stop(): UserSessionActor.shutdown clears the session map
Shutdown ==
    /\ running
    /\ running' = FALSE
    /\ _sessions' = NoSessions
    /\ UNCHANGED <<codecVars, PROMPT_CONFIG, escaped, events, outbox, generationVars, historyVars>>

----------------------------------------------------------------------------
(* Spec: the two engines together *)

UserIdSeq == <<"u1", "u2", "">>
TotalTurns == Sum([i \in 1..3 |-> turnsIn[UserIdSeq[i]]])
TotalMetrics ==
    Sum([i \in 1..3 |-> Len(metricsIn[UserIdSeq[i]]) + metricsDropped[UserIdSeq[i]]])
    + metricsDropped[None]

PeriodicThree ==
    [enable_periodic_prompt |-> TRUE, prompt_strategy |-> "periodic",
     system_prompt_interval |-> 3, cache_hit_threshold |-> 40]

Init ==
    /\ PROMPT_CONFIG \in {Config(PeriodicThree, jc) : jc \in JsonConfigs}
    /\ Constructed

SysUserTurn ==
    \E user_id \in UserIds :
        /\ TotalTurns < SysTurns
        /\ DeliverUserMessage(UserMessage(user_id))

SysCacheMetric ==
    \E rate \in MetricRates, user_id \in UserIds :
        /\ TotalMetrics < SysMetrics
        /\ DeliverCacheMetric(CacheMetricMessage(user_id, rate))

SysOutcomes ==
    {Reply(TextJsonOk, <<30, 70>>), Reply(TextJsonOk, <<0, 0>>),
     Reply(TextNotJson, <<30, 70>>), Raise("APIError"), Raise("JSONDecodeError")}

SysGenerate ==
    /\ genHandled < Len(outbox.generation)
    /\ GenerationActor_handle_message(outbox.generation[genHandled + 1])

SysFirstCall ==
    \E outcome \in SysOutcomes : FirstCallReturns(outcome)

SysRetryCall ==
    \E outcome \in SysOutcomes : RetryCallReturns(outcome)

Next ==
    \/ SysUserTurn
    \/ SysCacheMetric
    \/ SysGenerate
    \/ SysFirstCall
    \/ SysRetryCall
    \/ RecoveryWindowPasses
    \/ Shutdown

Spec == Init /\ [][Next]_vars

----------------------------------------------------------------------------
(* SpecSession: the session engine alone, all user ids *)

InitSession ==
    /\ PROMPT_CONFIG \in {Config(sc, [use_json_mode |-> TRUE, json_fallback_enabled |-> TRUE]) :
                            sc \in {c \in SessionConfigs : c.system_prompt_interval = 3}}
    /\ Constructed

UserTurn ==
    \E user_id \in UserIds :
        /\ TotalTurns < MaxTurns
        /\ DeliverUserMessage(UserMessage(user_id))

MalformedUserTurn ==
    \E key \in {"user_id", "text", "chat_id"} :
        DeliverUserMessage(UserMessageWithout(key))

CacheMetric ==
    \E rate \in MetricRates :
        /\ TotalMetrics < MaxMetrics
        /\ \/ \E user_id \in UserIds : DeliverCacheMetric(CacheMetricMessage(user_id, rate))
           \/ DeliverCacheMetric(CacheMetricWithoutUser(rate))

NextSession ==
    \/ UserTurn
    \/ MalformedUserTurn
    \/ CacheMetric
    \/ Shutdown

SpecSession == InitSession /\ [][NextSession]_vars

----------------------------------------------------------------------------
(* SpecPolicy: the session engine alone, one user, all policy configurations *)

PolicyUser == "u1"

InitPolicy ==
    /\ PROMPT_CONFIG \in {Config(sc, [use_json_mode |-> TRUE, json_fallback_enabled |-> TRUE]) :
                            sc \in SessionConfigs}
    /\ Constructed

PolicyTurn ==
    /\ turnsIn[PolicyUser] < PolicyCycles * PROMPT_CONFIG.system_prompt_interval
    /\ DeliverUserMessage(UserMessage(PolicyUser))

PolicyMetric ==
    \E rate \in MetricRates :
        /\ Len(metricsIn[PolicyUser]) + metricsDropped[PolicyUser] < PolicyMetrics
        /\ DeliverCacheMetric(CacheMetricMessage(PolicyUser, rate))

NextPolicy ==
    \/ PolicyTurn
    \/ PolicyMetric

SpecPolicy == InitPolicy /\ [][NextPolicy]_vars

----------------------------------------------------------------------------
(* SpecHist: the session engine alone, long streams of cache_hit_metric
   messages; the k-th message delivered for a user carries the rate k/100 *)

HistUsers == {"u1", ""}

InitHist ==
    /\ PROMPT_CONFIG = Config(PeriodicThree, [use_json_mode |-> TRUE, json_fallback_enabled |-> TRUE])
    /\ Constructed

HistTurn ==
    \E user_id \in HistUsers :
        /\ turnsIn[user_id] < 1
        /\ DeliverUserMessage(UserMessage(user_id))

HistMetric ==
    \E user_id \in HistUsers :
        LET k == Len(metricsIn[user_id]) + metricsDropped[user_id] + 1 IN
        /\ k <= HistMetrics
        /\ DeliverCacheMetric(CacheMetricMessage(user_id, k))

NextHist ==
    \/ HistTurn
    \/ HistMetric

SpecHist == InitHist /\ [][NextHist]_vars

----------------------------------------------------------------------------
(* SpecGen: the generation pipeline alone, requests arrive from outside *)

GenerateRequest(user_id, include_prompt) ==
    ActorMessage_create("user_session", MESSAGE_TYPES.GENERATE_RESPONSE,
        [user_id |-> user_id, chat_id |-> "c1", text |-> "hi",
         include_prompt |-> include_prompt, message_count |-> 1,
         session_data |-> [username |-> None]])

InitGen ==
    /\ PROMPT_CONFIG \in {Config([enable_periodic_prompt |-> TRUE, prompt_strategy |-> "periodic",
                                  system_prompt_interval |-> 3, cache_hit_threshold |-> 40], jc) :
                            jc \in JsonConfigs}
    /\ Constructed

GenerateAny ==
    \E include_prompt \in BOOLEAN :
        /\ genHandled < MaxRequests
        /\ GenerationActor_handle_message(GenerateRequest("u1", include_prompt))

FirstCall ==
    \E outcome \in BackendOutcomes : FirstCallReturns(outcome)

RetryCall ==
    \E outcome \in BackendOutcomes : RetryCallReturns(outcome)

NextGen ==
    \/ GenerateAny
    \/ FirstCall
    \/ RetryCall
    \/ RecoveryWindowPasses

SpecGen == InitGen /\ [][NextGen]_vars

----------------------------------------------------------------------------
(* SpecGenLive: the generation pipeline alone; a backend call that was issued
   runs to completion or fails, so a pending call always returns *)

GenerateLive ==
    \E include_prompt \in BOOLEAN :
        /\ genHandled < LiveRequests
        /\ GenerationActor_handle_message(GenerateRequest("u1", include_prompt))

NextGenLive ==
    \/ GenerateLive
    \/ FirstCall
    \/ RetryCall
    \/ RecoveryWindowPasses

SpecGenLive ==
    InitGen /\ [][NextGenLive]_vars /\ WF_vars(FirstCall) /\ WF_vars(RetryCall)

----------------------------------------------------------------------------
(* SpecEvent: events are serialized, lose fields on the way and are deserialized *)

EventFields == {"event_id", "stream_id", "event_type", "timestamp", "data", "version",
                "correlation_id"}

EventInputs ==
    {BaseEvent("e1", stream_id, event_type, [sec |-> 1, usec |-> usec], data, version,
               correlation_id) :
        stream_id \in {"metrics", "user_u1"},
        event_type \in {"CacheHitMetricEvent", "SessionCreatedEvent"},
        usec \in {0, 5},
        data \in {[user_id |-> "u1"], [cache_hit_rate |-> 30]},
        version \in {0, 1},
        correlation_id \in {None, "corr"}}

InitEvent ==
    /\ PROMPT_CONFIG = Config(PeriodicThree, [use_json_mode |-> TRUE, json_fallback_enabled |-> TRUE])
    /\ ActorsConstructed
    /\ EVENT_TIMESTAMP_FORMAT \in TimestampFormats
    /\ eventIn \in EventInputs
    /\ eventDict = NoDict
    /\ eventOut = NotDone

actorVars == <<PROMPT_CONFIG, running, _sessions, escaped, events, outbox, generationVars,
               historyVars>>

Serialize ==
    /\ DOMAIN eventDict = {}
    /\ eventDict' = to_dict(eventIn, EVENT_TIMESTAMP_FORMAT)
    /\ UNCHANGED <<actorVars, EVENT_TIMESTAMP_FORMAT, eventIn, eventOut>>

\* the mapping reaches from_dict without one of its fields
LoseField ==
    \E key \in DOMAIN eventDict :
        /\ Cardinality(EventFields \ DOMAIN eventDict) < MaxAbsent
        /\ eventDict' = [k \in DOMAIN eventDict \ {key} |-> eventDict[k]]
        /\ eventOut' = NotDone
        /\ UNCHANGED <<actorVars, EVENT_TIMESTAMP_FORMAT, eventIn>>

Deserialize ==
    /\ DOMAIN eventDict # {}
    /\ ~eventOut.done
    /\ eventOut' = from_dict(eventDict, EVENT_TIMESTAMP_FORMAT)
    /\ UNCHANGED <<actorVars, EVENT_TIMESTAMP_FORMAT, eventIn, eventDict>>

NextEvent ==
    \/ Serialize
    \/ LoseField
    \/ Deserialize

SpecEvent == InitEvent /\ [][NextEvent]_vars

----------------------------------------------------------------------------
(* Properties *)

Requests == outbox["generation"]
RequestsOf(user_id) == SelectSeq(Requests, LAMBDA m : m.payload.user_id = user_id)
CountEvents(stream_id, event_type) ==
    Cardinality({i \in DOMAIN events[stream_id] : events[stream_id][i].event_type = event_type})
MetricMessages ==
    SelectSeq(outbox["user_session"],
              LAMBDA m : m.message_type = MESSAGE_TYPES.CACHE_HIT_METRIC)

\* the request and the effects of the latest handling by the generation pipeline
TraceRequest == genTrace[1]
TraceEffects == Tail(genTrace)
TraceIndexes(op) == {i \in DOMAIN TraceEffects : TraceEffects[i].op = op}
TraceEvents(event_type) ==
    {i \in TraceIndexes("event") : TraceEffects[i].event_type = event_type}

\* C1: every backend invocation that completed with hit + miss > 0 (each of them
\* leaves one CacheHitMetricEvent on the metrics stream) has made the generation
\* pipeline send one cache_hit_metric message to the session engine, carrying the
\* id of the user of the request and the computed rate.
C1_MetricForwarded ==
    /\ Len(MetricMessages) = Len(events["metrics"])
    /\ (genTrace # <<>> /\ TraceEvents("CacheHitMetricEvent") # {}) =>
          \E i \in DOMAIN MetricMessages :
              /\ MetricMessages[i].payload.user_id = TraceRequest.payload.user_id
              /\ MetricMessages[i].payload.cache_hit_rate = 30

\* C2: while the process runs, exactly one SessionCreatedEvent exists for a user
\* who has sent a turn (none for the others), it is the first event of the user's
\* stream, and the k-th turn of the user carries message_count k: the session is
\* reused and its counter continues.
C2_SessionCreatedOnce ==
    \A u \in UserIds :
        LET reqs == RequestsOf(u) IN
        /\ CountEvents(UserStream(u), "SessionCreatedEvent") = IF turnsIn[u] > 0 THEN 1 ELSE 0
        /\ turnsIn[u] > 0 => events[UserStream(u)][1].event_type = "SessionCreatedEvent"
        /\ Len(reqs) = turnsIn[u]
        /\ \A i \in DOMAIN reqs : reqs[i].payload.message_count = i
        /\ (running /\ turnsIn[u] > 0) =>
              (u \in DOMAIN _sessions /\ _sessions[u].message_count = turnsIn[u])

C2_Witness ==
    \E u \in UserIds :
        /\ running
        /\ turnsIn[u] = 2
        /\ metricsIn[u] # <<>>
        /\ _sessions[u].message_count = 2
        /\ CountEvents(UserStream(u), "SessionCreatedEvent") = 1

PeriodicOn ==
    PROMPT_CONFIG.enable_periodic_prompt /\ PROMPT_CONFIG.prompt_strategy = "periodic"

\* C3: with the periodic switch on and strategy periodic, the request of the
\* turn with message count k has include_prompt true iff k mod N = 1.
C3_PeriodicModOne ==
    PeriodicOn =>
        \A i \in DOMAIN Requests :
            /\ Requests[i].payload.message_count = i
            /\ Requests[i].payload.include_prompt
                  <=> (i % PROMPT_CONFIG.system_prompt_interval = 1)

C3_Witness ==
    /\ PeriodicOn
    /\ PROMPT_CONFIG.system_prompt_interval = 3
    /\ Len(Requests) = 9
    /\ Requests[1].payload.include_prompt /\ Requests[4].payload.include_prompt
    /\ ~Requests[2].payload.include_prompt /\ ~Requests[3].payload.include_prompt

\* C4: with the periodic switch on and strategy periodic, for every interval N
\* the first turn includes the prompt and so does every N-th turn after it
\* (turns 1, 1+N, 1+2N, ...), and no other turn.
C4_FirstAndEveryNth ==
    PeriodicOn =>
        \A i \in DOMAIN Requests :
            Requests[i].payload.include_prompt
                <=> ((Requests[i].payload.message_count - 1)
                        % PROMPT_CONFIG.system_prompt_interval = 0)

AdaptiveOn ==
    PROMPT_CONFIG.enable_periodic_prompt /\ PROMPT_CONFIG.prompt_strategy = "adaptive"

\* the samples are at least 5 and the mean of the 5 most recent is strictly below T
MeanOfFiveBelow(samples, T) ==
    /\ Len(samples) >= 5
    /\ Sum(SubSeq(samples, Len(samples) - 4, Len(samples))) < 5 * T

\* C5: with the switch on and strategy adaptive, the request of a turn has
\* include_prompt true iff message_count mod N = 1, or the session holds at
\* least 5 samples and the mean of the 5 most recent is strictly below T.
C5_Adaptive ==
    [][\A u \in UserIds :
          (AdaptiveOn /\ turnsIn'[u] = turnsIn[u] + 1) =>
              LET req == Requests'[Len(Requests')]
                  session == _sessions'[u]
              IN  req.payload.include_prompt
                    <=> \/ session.message_count % PROMPT_CONFIG.system_prompt_interval = 1
                        \/ MeanOfFiveBelow(session.cache_metrics, PROMPT_CONFIG.cache_hit_threshold)]_vars

\* a prompt was included for a low mean off the periodic phase, and a turn off
\* the periodic phase went without prompt while 5 samples had a mean equal to T
C5_Witness ==
    /\ AdaptiveOn
    /\ PROMPT_CONFIG.system_prompt_interval = 3
    /\ \E i \in DOMAIN events[UserStream(PolicyUser)] :
          LET e == events[UserStream(PolicyUser)][i] IN
          /\ e.event_type = "PromptInclusionEvent"
          /\ e.data.message_count = 2
          /\ e.data.reason = <<"low_cache_hit_rate_", 20>>
    /\ Len(Requests) = 3
    /\ ~Requests[3].payload.include_prompt
    /\ metricsIn[PolicyUser] = <<0, 0, 0, 0, 100, 100>>

\* C6: with the periodic switch off every request has include_prompt true,
\* whatever the strategy; so has every request under strategy always.
C6_AlwaysInclude ==
    (~PROMPT_CONFIG.enable_periodic_prompt \/ PROMPT_CONFIG.prompt_strategy = "always") =>
        \A i \in DOMAIN Requests : Requests[i].payload.include_prompt = TRUE

C6_Witness ==
    /\ ~PROMPT_CONFIG.enable_periodic_prompt
    /\ PROMPT_CONFIG.prompt_strategy = "other"
    /\ PROMPT_CONFIG.system_prompt_interval = 3
    /\ Len(Requests) = 3
    /\ Len(_sessions[PolicyUser].cache_metrics) >= 5
    /\ \A i \in DOMAIN Requests : Requests[i].payload.include_prompt

\* C7: the history of every session has at most 20 entries and equals the most
\* recent min(k, 20) of the k rates delivered for the user since the session
\* exists, in arrival order.
C7_RollingHistory ==
    running =>
        \A u \in DOMAIN _sessions :
            /\ Len(_sessions[u].cache_metrics) <= 20
            /\ _sessions[u].cache_metrics = LastN(metricsIn[u], 20)

\* the same for the sessions whose user id is not empty; after 25 deliveries
\* the history of such a session is the last 20 of them
RollingHistoryNonEmptyIds ==
    running =>
        \A u \in DOMAIN _sessions :
            Truthy(u) =>
                /\ Len(_sessions[u].cache_metrics) <= 20
                /\ _sessions[u].cache_metrics = LastN(metricsIn[u], 20)

RollingHistoryFull ==
    /\ "u1" \in DOMAIN _sessions
    /\ Len(metricsIn["u1"]) = 25
    /\ _sessions["u1"].cache_metrics = [i \in 1..20 |-> metricsIn["u1"][i + 5]]
    /\ _sessions["u1"].cache_metrics[1] = metricsDropped["u1"] + 6

\* a cache_hit_metric for user_id is handled in this step
MetricDelivered(user_id) ==
    \/ metricsDropped'[user_id] # metricsDropped[user_id]
    \/ user_id \in UserIds /\ metricsIn'[user_id] # metricsIn[user_id]

\* C8: handling a cache_hit_metric for a user id without session changes no
\* session, creates none, emits no event and no message and raises nothing;
\* and the first turn of a user starts at message_count 1 with an empty history.
C8_UnknownUserMetricDropped ==
    [][\A u \in UserIds \cup {None} :
          /\ (MetricDelivered(u) /\ u \notin DOMAIN _sessions) =>
                /\ _sessions' = _sessions
                /\ events' = events
                /\ outbox' = outbox
                /\ escaped'["user_session"] = None
          /\ (u \in UserIds /\ turnsIn[u] = 0 /\ turnsIn'[u] = 1) =>
                /\ _sessions'[u].message_count = 1
                /\ _sessions'[u].cache_metrics = <<>>]_vars

C8_Witness ==
    \E u \in UserIds :
        /\ metricsDropped[u] = 2
        /\ u \in DOMAIN _sessions
        /\ _sessions[u].message_count = 1
        /\ _sessions[u].cache_metrics = <<>>
        /\ DOMAIN _sessions = {u}
        /\ events[UserStream(u)][1].event_type = "SessionCreatedEvent"

\* the latest request was handled in JSON mode and the first backend reply was `text`
FirstReplyInJsonMode(text) ==
    /\ genTrace # <<>>
    /\ PROMPT_CONFIG.use_json_mode
    /\ Len(TraceEffects) >= 2
    /\ TraceEffects[1].op = "backend_call"
    /\ TraceEffects[1].response_format = "json_object"
    /\ TraceEffects[2].op = "backend_reply"
    /\ TraceEffects[2].text = text

LastTelegram == outbox["telegram"][Len(outbox["telegram"])]

\* the invocation at index c of the trace is the retry: no structured-output
\* mode, the plain prompt variant if a prompt is included, never the JSON one
PlainRetry(c) ==
    LET call == TraceEffects[c] IN
    /\ call.response_format = None
    /\ \A k \in DOMAIN call.messages : call.messages[k].content # PROMPTS.base.json
    /\ TraceRequest.payload.include_prompt =>
          call.messages[1] = [role |-> "system", content |-> PROMPTS.base.normal]
    /\ call.messages[Len(call.messages)] = [role |-> "user", content |-> TraceRequest.payload.text]

\* the request ended with the outcome of the retry at index c: its text as it
\* came, or an error message if the retry raised
RetryReturned(c) ==
    /\ TraceIndexes("send") = {Len(TraceEffects)}
    /\ IF TraceEffects[c + 1].op = "backend_reply"
       THEN /\ LastTelegram.message_type = MESSAGE_TYPES.BOT_RESPONSE
            /\ LastTelegram.payload.text = TraceEffects[c + 1].text
       ELSE /\ LastTelegram.message_type = MESSAGE_TYPES.ERROR
            /\ LastTelegram.payload.error_type = "generation_error"

\* one JSONModeFailureEvent on the stream of the user, before every invocation after the first
OneFailureEventBeforeRetry ==
    /\ Cardinality(TraceEvents("JSONModeFailureEvent")) = 1
    /\ \A i \in TraceEvents("JSONModeFailureEvent") :
          /\ TraceEffects[i].stream_id = UserStream(TraceRequest.payload.user_id)
          /\ \A c \in (TraceIndexes("backend_call") \cup TraceIndexes("rejected")) \ {1} : i < c

\* the one retry of the latest request: while it is awaited there has been one
\* invocation and no message; once it is over there have been two, the second
\* plain, and the request ended with its outcome
OnePlainRetry ==
    IF genPc = "retry_call"
    THEN /\ Cardinality(TraceIndexes("backend_call")) = 1
         /\ TraceIndexes("send") = {}
    ELSE /\ genPc = "idle"
         /\ Cardinality(TraceIndexes("backend_call")) = 2
         /\ \A c \in TraceIndexes("backend_call") \ {1} : PlainRetry(c) /\ RetryReturned(c)

\* C9: JSON mode, fallback enabled, the first reply does not decode: one
\* JSONModeFailureEvent on user_<id>, emitted before the retry; one further
\* backend invocation, plain; its text returned as it came, no further
\* invocation; one event whether the retry succeeds or raises.
C9_SingleFallback ==
    (FirstReplyInJsonMode(TextNotJson) /\ PROMPT_CONFIG.json_fallback_enabled) =>
        /\ OneFailureEventBeforeRetry
        /\ TraceIndexes("rejected") = {}
        /\ OnePlainRetry

C9_Witness ==
    /\ FirstReplyInJsonMode(TextNotJson)
    /\ PROMPT_CONFIG.json_fallback_enabled
    /\ genPc = "idle"
    /\ TraceRequest.payload.include_prompt
    /\ Cardinality(TraceIndexes("backend_call")) = 2
    /\ LastTelegram.message_type = MESSAGE_TYPES.BOT_RESPONSE
    /\ LastTelegram.payload.text = TextJsonOk
    /\ _json_failures = 2

\* C10: JSON mode, the first reply parses but is not a mapping with a
\* `response` field: a JSONModeFailureEvent is emitted; with fallback the one
\* plain retry is made and its outcome returned; without fallback the raw text
\* is the bot_response.
C10_MissingFieldIsDecodeFailure ==
    \A text \in {TextNoField, TextList} :
        FirstReplyInJsonMode(text) =>
            /\ OneFailureEventBeforeRetry
            /\ IF PROMPT_CONFIG.json_fallback_enabled
               THEN OnePlainRetry
               ELSE /\ Cardinality(TraceIndexes("backend_call")) = 1
                    /\ LastTelegram.message_type = MESSAGE_TYPES.BOT_RESPONSE
                    /\ LastTelegram.payload.text = text

\* C11: JSON mode, fallback disabled, the first reply does not decode: the
\* handling ends there with one backend invocation, one JSONModeFailureEvent
\* and a bot_response whose text is the raw backend text.
C11_RawTextWithoutFallback ==
    (FirstReplyInJsonMode(TextNotJson) /\ ~PROMPT_CONFIG.json_fallback_enabled) =>
        /\ genPc = "idle"
        /\ Cardinality(TraceIndexes("backend_call")) = 1
        /\ TraceIndexes("rejected") = {}
        /\ Cardinality(TraceEvents("JSONModeFailureEvent")) = 1
        /\ TraceIndexes("send") = {Len(TraceEffects)}
        /\ LastTelegram.message_type = MESSAGE_TYPES.BOT_RESPONSE
        /\ LastTelegram.payload.text = TextNotJson

C11_Witness ==
    /\ FirstReplyInJsonMode(TextNotJson)
    /\ ~PROMPT_CONFIG.json_fallback_enabled
    /\ genPc = "idle"
    /\ LastTelegram.payload.text = TextNotJson
    /\ _json_failures = 1
    /\ CountEvents(UserStream("u1"), "JSONModeFailureEvent") = 1

\* the last thing the breaker or the backend did for the latest request
BackendEffects ==
    TraceIndexes("rejected") \cup TraceIndexes("backend_raise") \cup TraceIndexes("backend_reply")
LastBackendEffect ==
    TraceEffects[CHOOSE i \in BackendEffects : \A j \in BackendEffects : j <= i]

\* the one message of a finished request: an error message if the last call was
\* rejected or raised, a bot_response only with a text the backend replied
OneMessageSent ==
    /\ TraceIndexes("send") = {Len(TraceEffects)}
    /\ LastTelegram.payload.user_id = TraceRequest.payload.user_id
    /\ LastTelegram.payload.chat_id = TraceRequest.payload.chat_id
    /\ IF LastTelegram.message_type = MESSAGE_TYPES.BOT_RESPONSE
       THEN /\ LastBackendEffect.op = "backend_reply"
            /\ LastTelegram.payload.text # None
            /\ LastTelegram.payload.text \in
                  {LastBackendEffect.text, json_loads(LastBackendEffect.text).response}
       ELSE /\ LastTelegram.message_type = MESSAGE_TYPES.ERROR
            /\ LastTelegram.payload.error_type = "generation_error"
            /\ LastTelegram.payload.error # None
    /\ LastBackendEffect.op # "backend_reply" =>
          LastTelegram.message_type = MESSAGE_TYPES.ERROR

OneMessagePerRequest ==
    /\ escaped.generation = None
    /\ Len(outbox["telegram"]) = IF genPc = "idle" THEN genHandled ELSE genHandled - 1
    /\ genPc # "idle" => TraceIndexes("send") = {}
    /\ (genPc = "idle" /\ genTrace # <<>>) => OneMessageSent

\* C12: no exception leaves the handling of a generate_response; every request
\* taken is finished, and a finished request has sent exactly one message to
\* the transport: a bot_response with the final text or a generation_error.
C12_OneMessagePerRequest ==
    /\ []OneMessagePerRequest
    /\ (genPc # "idle") ~> (genPc = "idle")

C12_Witness ==
    /\ genPc = "idle"
    /\ genHandled = 2
    /\ Len(outbox["telegram"]) = 2
    /\ outbox["telegram"][1].message_type = MESSAGE_TYPES.ERROR
    /\ outbox["telegram"][1].payload.error = "UnboundLocalError"
    /\ outbox["telegram"][2].message_type = MESSAGE_TYPES.BOT_RESPONSE

\* a pending call through the breaker returns in this step
CallReturns == genPc # "idle" /\ genTrace' # genTrace

\* the backend raised in this step
BackendRaises ==
    /\ CallReturns
    /\ \E i \in DOMAIN genTrace' : i > Len(genTrace) /\ genTrace'[i].op = "backend_raise"

\* C13: the third consecutive failed backend call opens the breaker; a call
\* made while the breaker is open and its recovery window has not passed is
\* rejected: the backend is not invoked, the generation counter and the event
\* log stay as they are, and the request ends in a generation_error message.
C13_OpenBreakerRejects ==
    [][/\ (BackendRaises /\ _circuit_breaker.failure_count >= failure_threshold - 1) =>
              (_circuit_breaker'.state = "open" /\ ~_circuit_breaker'.window_elapsed)
       /\ (CallReturns /\ _circuit_breaker.state = "open" /\ ~_circuit_breaker.window_elapsed) =>
              /\ genTrace' = genTrace \o <<[op |-> "rejected"],
                                           [op |-> "send", message_type |-> MESSAGE_TYPES.ERROR]>>
              /\ _generation_count' = _generation_count
              /\ events' = events
              /\ _circuit_breaker' = _circuit_breaker
              /\ genPc' = "idle"
              /\ Len(outbox'["telegram"]) = Len(outbox["telegram"]) + 1
              /\ LastTelegram'.message_type = MESSAGE_TYPES.ERROR
              /\ LastTelegram'.payload.error_type = "generation_error"]_vars

C13_Witness ==
    /\ _circuit_breaker.state = "open"
    /\ ~_circuit_breaker.window_elapsed
    /\ _circuit_breaker.failure_count = failure_threshold
    /\ genPc = "idle"
    /\ genTrace # <<>>
    /\ TraceEffects = <<[op |-> "rejected"], [op |-> "send", message_type |-> MESSAGE_TYPES.ERROR]>>
    /\ LastTelegram.payload.error = "CircuitBreakerError"
    /\ _generation_count = 0
    /\ events["metrics"] = <<>>

\* C14: a user_message without a required field never makes the handler of
\* the session engine raise; it creates and changes no session, emits no
\* event and forwards no generation request.
C14_MalformedTurnDropped ==
    /\ escaped["user_session"] = None
    /\ Len(Requests) = TotalTurns
    /\ \A u \in UserIds :
          /\ (running /\ u \in DOMAIN _sessions) => _sessions[u].message_count = turnsIn[u]
          /\ turnsIn[u] = 0 => events[UserStream(u)] = <<>>

\* C15: a user turn with an empty user_id is rejected: no session, no event
\* and no generation request exists for the empty id.
C15_EmptyTurnRejected ==
    /\ "" \notin DOMAIN _sessions
    /\ events[UserStream("")] = <<>>
    /\ RequestsOf("") = <<>>

\* the replies of the latest request whose usage record has hit + miss > 0
MeteredReplies ==
    {i \in TraceIndexes("backend_reply") : TraceEffects[i].usage[1] + TraceEffects[i].usage[2] > 0}

MetricEventFollows(i) ==
    /\ i + 1 \in DOMAIN TraceEffects
    /\ TraceEffects[i + 1] = [op |-> "event", event_type |-> "CacheHitMetricEvent",
                              stream_id |-> "metrics"]

\* C16: a completed backend invocation emits a CacheHitMetricEvent on stream
\* metrics iff hit + miss > 0; the event carries hit, miss and the rate
\* hit / (hit + miss), in hundredths.
C16_MetricEventIffTokens ==
    /\ genTrace # <<>> =>
          /\ \A i \in TraceIndexes("backend_reply") : MetricEventFollows(i) <=> i \in MeteredReplies
          /\ Cardinality(TraceEvents("CacheHitMetricEvent")) = Cardinality(MeteredReplies)
          /\ MeteredReplies # {} =>
                LET last == CHOOSE i \in MeteredReplies : \A j \in MeteredReplies : j <= i
                    event == events["metrics"][Len(events["metrics"])]
                IN  /\ event.data.prompt_cache_hit_tokens = TraceEffects[last].usage[1]
                    /\ event.data.prompt_cache_miss_tokens = TraceEffects[last].usage[2]
    /\ \A k \in DOMAIN events["metrics"] :
          LET event == events["metrics"][k]
              hit == event.data.prompt_cache_hit_tokens
              miss == event.data.prompt_cache_miss_tokens
          IN  /\ event.event_type = "CacheHitMetricEvent"
              /\ hit + miss > 0
              /\ event.data.cache_hit_rate * (hit + miss) = hit * 100
              /\ (hit = 30 /\ miss = 70) => event.data.cache_hit_rate = 30
    /\ \A stream_id \in StreamIds \ {"metrics"} :
          \A k \in DOMAIN events[stream_id] :
              events[stream_id][k].event_type # "CacheHitMetricEvent"

C16_Witness ==
    /\ genPc = "idle"
    /\ _generation_count = 3
    /\ Len(events["metrics"]) = 2
    /\ events["metrics"][1].data.cache_hit_rate = 30
    /\ events["metrics"][2].data.cache_hit_rate = 0
    /\ events["metrics"][2].data.prompt_cache_miss_tokens = 70
    /\ Len(TraceEffects) = 3
    /\ TraceEffects[2].op = "backend_reply"
    /\ TraceEffects[2].usage = <<0, 0>>

PromptEvents(user_id) ==
    SelectSeq(events[UserStream(user_id)], LAMBDA e : e.event_type = "PromptInclusionEvent")

\* C17: every user turn has forwarded one generate_response, and the turn
\* with message count k of a user has one PromptInclusionEvent on the user's
\* stream if its request has include_prompt true, none if it has not.
C17_OneRequestOneDecision ==
    /\ Len(Requests) = TotalTurns
    /\ \A i \in DOMAIN Requests :
          /\ Requests[i].message_type = MESSAGE_TYPES.GENERATE_RESPONSE
          /\ Requests[i].sender_id = "user_session"
    /\ \A u \in UserIds :
          LET reqs == RequestsOf(u)
              prompts == PromptEvents(u)
          IN  /\ Len(reqs) = turnsIn[u]
              /\ \A i \in DOMAIN reqs :
                    Cardinality({k \in DOMAIN prompts :
                                    prompts[k].data.message_count = reqs[i].payload.message_count})
                        = IF reqs[i].payload.include_prompt THEN 1 ELSE 0
              /\ Len(prompts) = Cardinality({i \in DOMAIN reqs : reqs[i].payload.include_prompt})

C17_Witness ==
    /\ PeriodicOn
    /\ turnsIn["u2"] = 3
    /\ Len(PromptEvents("u2")) = 1
    /\ RequestsOf("u2")[1].payload.include_prompt
    /\ ~RequestsOf("u2")[2].payload.include_prompt
    /\ ~RequestsOf("u2")[3].payload.include_prompt

\* C18: the reason of every PromptInclusionEvent names the rule that made the
\* decision: always_strategy, periodic_interval_<N>, unknown for an
\* unrecognized strategy, and under adaptive adaptive_periodic on the periodic
\* phase (message_count mod N = 1), low_cache_hit_rate_<mean> off it.
C18_ReasonNamesRule ==
    \A k \in DOMAIN PromptEvents(PolicyUser) :
        LET data == PromptEvents(PolicyUser)[k].data
            strategy == PROMPT_CONFIG.prompt_strategy
        IN  /\ strategy = "always" => data.reason = <<"always_strategy">>
            /\ strategy = "periodic" =>
                  data.reason = <<"periodic_interval_", PROMPT_CONFIG.system_prompt_interval>>
            /\ strategy \notin {"always", "periodic", "adaptive"} => data.reason = <<"unknown">>
            /\ AdaptiveOn =>
                  IF data.message_count % PROMPT_CONFIG.system_prompt_interval = 1
                  THEN data.reason = <<"adaptive_periodic">>
                  ELSE data.reason[1] = "low_cache_hit_rate_"

\* C19: while the process runs a session stays and its counter never goes
\* down; a user turn adds exactly 1, a cache_hit_metric leaves it as it is,
\* and the k-th request of a user carries message_count k.
C19_CounterOnlyGrows ==
    [][\A u \in UserIds :
          LET before == IF u \in DOMAIN _sessions THEN _sessions[u].message_count ELSE 0
              reqs == SelectSeq(outbox'["generation"], LAMBDA m : m.payload.user_id = u)
          IN  /\ (running' /\ u \in DOMAIN _sessions) =>
                    /\ u \in DOMAIN _sessions'
                    /\ _sessions'[u].message_count >= _sessions[u].message_count
              /\ turnsIn'[u] # turnsIn[u] => _sessions'[u].message_count = before + 1
              /\ (MetricDelivered(u) /\ u \in DOMAIN _sessions) =>
                    _sessions'[u].message_count = _sessions[u].message_count
              /\ \A i \in DOMAIN reqs : reqs[i].payload.message_count = i]_vars

C19_Witness ==
    /\ running
    /\ "u1" \in DOMAIN _sessions
    /\ _sessions["u1"].message_count = 3
    /\ Len(_sessions["u1"].cache_metrics) = 2
    /\ RequestsOf("u1")[3].payload.message_count = 3

\* C20: in JSON mode a first reply that is a mapping with a `response` field
\* ends the request with one backend invocation, no JSONModeFailureEvent and a
\* bot_response whose text is the field's value; without JSON mode the reply
\* itself is the text of the bot_response and no JSONModeFailureEvent exists.
C20_ResponseFieldIsFinalText ==
    /\ \A text \in {TextJsonOk, TextNullField} :
          FirstReplyInJsonMode(text) =>
              /\ genPc = "idle"
              /\ Cardinality(TraceIndexes("backend_call")) = 1
              /\ TraceEvents("JSONModeFailureEvent") = {}
              /\ LastTelegram.message_type = MESSAGE_TYPES.BOT_RESPONSE
              /\ LastTelegram.payload.text = json_loads(text).response
    /\ ~PROMPT_CONFIG.use_json_mode =>
          /\ \A stream_id \in StreamIds : \A k \in DOMAIN events[stream_id] :
                events[stream_id][k].event_type # "JSONModeFailureEvent"
          /\ (genTrace # <<>> /\ genPc = "idle" /\ TraceIndexes("backend_reply") # {}) =>
                /\ Cardinality(TraceIndexes("backend_call")) = 1
                /\ LastTelegram.message_type = MESSAGE_TYPES.BOT_RESPONSE
                /\ LastTelegram.payload.text = TraceEffects[2].text

\* the part of C20 the code keeps: the reply {"response": "hi"} in JSON mode
ResponseFieldString ==
    FirstReplyInJsonMode(TextJsonOk) =>
        /\ genPc = "idle"
        /\ Cardinality(TraceIndexes("backend_call")) = 1
        /\ TraceEvents("JSONModeFailureEvent") = {}
        /\ LastTelegram.message_type = MESSAGE_TYPES.BOT_RESPONSE
        /\ LastTelegram.payload.text = "hi"

RequiredFields == EventFields \ {"correlation_id"}

\* C21: from_dict raises and makes no event when a required field is absent
\* from the mapping; otherwise it makes an event whose fields other than the
\* timestamp are those of the serialized event, with correlation_id none when
\* that key is absent.
C21_FromDictRequiresFields ==
    eventOut.done =>
        IF RequiredFields \subseteq DOMAIN eventDict
        THEN /\ eventOut.raised = None
             /\ \A k \in RequiredFields \ {"timestamp"} : eventOut.event[k] = eventIn[k]
             /\ eventOut.event.correlation_id =
                   IF "correlation_id" \in DOMAIN eventDict THEN eventIn.correlation_id ELSE None
        ELSE /\ eventOut.raised = "KeyError"
             /\ eventOut.key \in RequiredFields \ DOMAIN eventDict
             /\ eventOut.event = None

C21_Witness ==
    /\ eventOut.done
    /\ DOMAIN eventDict = RequiredFields
    /\ eventIn.correlation_id = "corr"
    /\ eventIn.version = 1
    /\ eventOut.raised = None
    /\ eventOut.event.correlation_id = None
    /\ eventOut.event.version = 1
    /\ eventOut.event.timestamp # eventIn.timestamp

\* the first invocation of the latest request failed: rejected by the breaker,
\* or the backend call raised
FirstInvocationFailed ==
    /\ genTrace # <<>>
    /\ Len(TraceEffects) >= 1
    /\ \/ TraceEffects[1].op = "rejected"
       \/ Len(TraceEffects) >= 2 /\ TraceEffects[2].op = "backend_raise"

NotRetried ==
    /\ genPc = "idle"
    /\ Cardinality(TraceIndexes("backend_call") \cup TraceIndexes("rejected")) = 1
    /\ TraceEvents("JSONModeFailureEvent") = {}
    /\ TraceIndexes("send") = {Len(TraceEffects)}
    /\ LastTelegram.message_type = MESSAGE_TYPES.ERROR
    /\ LastTelegram.payload.error_type = "generation_error"

\* C22: a request whose first invocation was rejected by the breaker or raised
\* in the backend ends with that one attempt: no fallback, no
\* JSONModeFailureEvent, an error message.
C22_BackendFailureNotRetried ==
    FirstInvocationFailed => NotRetried

\* the part of C22 the code keeps: rejections and exceptions other than json.JSONDecodeError
OtherFailureNotRetried ==
    (/\ FirstInvocationFailed
     /\ \A i \in TraceIndexes("backend_raise") : TraceEffects[i].exc # "JSONDecodeError")
        => NotRetried

\* the backend replies that completed in this step
NewReplies ==
    IF genPc # "idle"
    THEN Cardinality({i \in DOMAIN genTrace' : i > Len(genTrace) /\ genTrace'[i].op = "backend_reply"})
    ELSE 0

\* C23: the generation counter starts at 0 and every step adds to it the
\* number of backend invocations that completed in the step: 1 for a reply
\* whatever its token counts, 0 for a rejection or an exception; a request
\* whose first reply did not decode and whose fallback retry completes has
\* two completed invocations, so it has added 2.
C23_CounterCountsCompletions ==
    [][/\ _generation_count' = _generation_count + NewReplies
       /\ NewReplies <= 1
       /\ (genPc = "retry_call" /\ NewReplies = 1 /\ genTrace[3].op = "backend_reply") =>
             Cardinality({i \in DOMAIN genTrace' :
                             i > 1 /\ genTrace'[i].op = "backend_reply"}) = 2
       /\ (genPc # "idle" /\ genTrace' # genTrace /\ NewReplies = 0) =>
             \E i \in DOMAIN genTrace' :
                 i > Len(genTrace) /\ genTrace'[i].op \in {"rejected", "backend_raise"}]_vars

C23_Witness ==
    /\ genHandled = 1
    /\ genPc = "idle"
    /\ genTrace # <<>>
    /\ Cardinality(TraceIndexes("backend_reply")) = 2
    /\ \A i \in TraceIndexes("backend_reply") : TraceEffects[i].usage = <<0, 0>> \/ i = 2
    /\ TraceEffects[2].text = TextNotJson
    /\ _generation_count = 2
    /\ Len(events["metrics"]) = 1

SessionChanged(u) ==
    \/ (u \in DOMAIN _sessions) # (u \in DOMAIN _sessions')
    \/ u \in DOMAIN _sessions /\ u \in DOMAIN _sessions' /\ _sessions'[u] # _sessions[u]

HistoryChanged(u) ==
    /\ u \in DOMAIN _sessions
    /\ u \in DOMAIN _sessions'
    /\ _sessions'[u].cache_metrics # _sessions[u].cache_metrics

\* C24: while the process runs, a user turn or a cache_hit_metric for one user
\* leaves the session of every other user as it is; a user turn changes no
\* history; a history changes only in a step that handles a cache_hit_metric
\* for its user; a step of the generation pipeline changes no session.
C24_SessionsIsolated ==
    [][running' =>
        /\ \A a \in UserIds :
              (turnsIn'[a] # turnsIn[a] \/ MetricDelivered(a)) =>
                  \A u \in UserIds \ {a} : ~SessionChanged(u)
        /\ turnsIn' # turnsIn => \A u \in UserIds : ~HistoryChanged(u)
        /\ \A u \in UserIds : HistoryChanged(u) => metricsIn'[u] # metricsIn[u]
        /\ MetricDelivered(None) => \A u \in UserIds : ~SessionChanged(u)
        /\ generationVars' # generationVars => _sessions' = _sessions]_vars

C24_Witness ==
    /\ running
    /\ DOMAIN _sessions = {"u1", "u2"}
    /\ _sessions["u1"].cache_metrics = <<100>>
    /\ _sessions["u2"].cache_metrics = <<>>
    /\ _sessions["u2"].message_count = 1
    /\ genHandled = 2
    /\ genPc = "idle"
    /\ _generation_count >= 1

UnknownStrategy == PROMPT_CONFIG.prompt_strategy \notin {"always", "periodic", "adaptive"}

\* C25: with the periodic switch on and an unrecognized strategy no request
\* has include_prompt true and no PromptInclusionEvent exists; a
\* PromptInclusionEvent with reason unknown exists only with the switch off.
C25_UnknownStrategyNeverIncludes ==
    /\ (PROMPT_CONFIG.enable_periodic_prompt /\ UnknownStrategy) =>
          /\ \A i \in DOMAIN Requests : ~Requests[i].payload.include_prompt
          /\ PromptEvents(PolicyUser) = <<>>
    /\ \A k \in DOMAIN PromptEvents(PolicyUser) :
          PromptEvents(PolicyUser)[k].data.reason = <<"unknown">> =>
              ~PROMPT_CONFIG.enable_periodic_prompt /\ UnknownStrategy

C25_Witness ==
    /\ PROMPT_CONFIG.enable_periodic_prompt
    /\ UnknownStrategy
    /\ PROMPT_CONFIG.system_prompt_interval = 3
    /\ Len(Requests) = 4
    /\ ~Requests[1].payload.include_prompt
    /\ ~Requests[4].payload.include_prompt
    /\ _sessions[PolicyUser].cache_metrics = <<0, 0, 0, 0, 0>>
    /\ Len(events[UserStream(PolicyUser)]) = 1

\* C26: whenever the latest request has a JSONModeFailureEvent, the call before
\* it had returned and left the breaker closed with no failure counted, and
\* the retry that follows is not rejected.
C26_DecodeFailureOutsideBreaker ==
    (genTrace # <<>> /\ TraceEvents("JSONModeFailureEvent") # {}) =>
        /\ TraceIndexes("backend_raise") \cap {2} = {}
        /\ TraceIndexes("rejected") = {}
        /\ genPc = "retry_call" =>
              (_circuit_breaker.state = "closed" /\ _circuit_breaker.failure_count = 0)

\* the part of C26 the code keeps: a reply that does not decode leaves the
\* breaker closed and its retry is never rejected
ReplyDecodeFailureOutsideBreaker ==
    FirstReplyInJsonMode(TextNotJson) =>
        /\ TraceIndexes("rejected") = {}
        /\ genPc = "retry_call" =>
              (_circuit_breaker.state = "closed" /\ _circuit_breaker.failure_count = 0)

====
